---- MODULE Spec2Model ----
(***************************************************************************)
(* A model of the publications page of the portfolio site:                 *)
(*   - DynamicPage (src/content/bio.md, lines 72-104), which dispatches a  *)
(*     page configuration to one of three renderers, and                   *)
(*   - the PublicationsList component                                      *)
(*     (src/src/components/publications/PublicationsList.tsx), its six     *)
(*     state cells, its three memoised derivations (years, types,          *)
(*     filteredPublications), its effect and its event handlers.           *)
(*                                                                         *)
(* A JavaScript string is a sequence of one-character strings, so that     *)
(* toLowerCase and includes are computed, not assumed.  An optional value  *)
(* is a sequence of length at most one: <<>> is undefined, <<v>> is v.     *)
(***************************************************************************)
EXTENDS Integers, Sequences, FiniteSets, TLC

VARIABLES
    requested,            \* a slug has been requested from DynamicPage
    pageConfig,           \* getPageConfig(slug): <<>> is null, <<[type |-> t]>> a config
    notFoundSignalled,    \* notFound() was called for the current request
    rendered,             \* the renderers DynamicPage invoked for the current request
    loaded,               \* the content loaders called for the current request
    publications,         \* the publications prop
    searchQuery,          \* useState('')
    selectedYear,         \* useState<number | 'all'>('all'): <<>> is 'all', <<y>> a year
    selectedType,         \* useState<string | 'all'>('all')
    showFilters,          \* useState(false)
    expandedBibtexId,     \* useState<string | null>(null): <<>> is null
    expandedAbstractId,   \* useState<string | null>(null): <<>> is null
    years,                \* the memoised year options
    types,                \* the memoised type options
    filteredPublications, \* the memoised filter result
    criteria,             \* matchesSearch/matchesYear/matchesType of the last filter run
    renderState,          \* "unmounted", "pending", "committed" or "crashed"
    pendingEffect,        \* the [publications] effect is scheduled and has not run
    lastClick             \* the Abstract or BibTeX button the last event clicked, if any

vars == <<requested, pageConfig, notFoundSignalled, rendered, loaded,
          publications, searchQuery, selectedYear, selectedType, showFilters,
          expandedBibtexId, expandedAbstractId, years, types,
          filteredPublications, criteria, renderState, pendingEffect,
          lastClick>>

pageVars == <<requested, pageConfig, notFoundSignalled, rendered, loaded>>
cellVars == <<searchQuery, selectedYear, selectedType, showFilters,
              expandedBibtexId, expandedAbstractId>>
memoVars == <<years, types, filteredPublications, criteria, renderState>>

-----------------------------------------------------------------------------
(* Bounds *)

MaxPubs == 3        \* longest publications list drawn as an input
MaxQueryLen == 2    \* longest query typed over QueryChars

-----------------------------------------------------------------------------
(* JavaScript values *)

Undefined == <<>>
Some(v) == <<v>>
IsDefined(o) == o # <<>>
Get(o) == o[1]

JsTrue == "true"
JsFalse == "false"
JsUndefined == "undefined"
JsBool(b) == IF b THEN JsTrue ELSE JsFalse
Truthy(v) == v = JsTrue

\* a || b: the left operand when it is truthy, else the right one
JsOr(a, b) == IF Truthy(a) THEN a ELSE b
\* a && b: the left operand when it is falsy, else the right one
JsAnd(a, b) == IF Truthy(a) THEN b ELSE a

\* A non-empty string is truthy; '' and undefined are falsy.
TruthyString(o) == IsDefined(o) /\ Get(o) # <<>>

-----------------------------------------------------------------------------
(* Strings *)

UpperToLower ==
    [A |-> "a", B |-> "b", C |-> "c", D |-> "d", E |-> "e", F |-> "f", G |-> "g",
     H |-> "h", I |-> "i", J |-> "j", K |-> "k", L |-> "l", M |-> "m", N |-> "n",
     O |-> "o", P |-> "p", Q |-> "q", R |-> "r", S |-> "s", T |-> "t", U |-> "u",
     V |-> "v", W |-> "w", X |-> "x", Y |-> "y", Z |-> "z"]

\* UTF-16 code units of the characters the model uses
CodeUnit ==
    [A |-> 65, B |-> 66, C |-> 67, D |-> 68, E |-> 69, F |-> 70, G |-> 71,
     H |-> 72, I |-> 73, J |-> 74, K |-> 75, L |-> 76, M |-> 77, N |-> 78,
     O |-> 79, P |-> 80, Q |-> 81, R |-> 82, S |-> 83, T |-> 84, U |-> 85,
     V |-> 86, W |-> 87, X |-> 88, Y |-> 89, Z |-> 90, a |-> 97, b |-> 98,
     c |-> 99, d |-> 100, e |-> 101, f |-> 102, g |-> 103, h |-> 104, i |-> 105,
     j |-> 106, k |-> 107, l |-> 108, m |-> 109, n |-> 110, o |-> 111, p |-> 112,
     q |-> 113, r |-> 114, s |-> 115, t |-> 116, u |-> 117, v |-> 118, w |-> 119,
     x |-> 120, y |-> 121, z |-> 122]

LowerChar(c) == IF c \in DOMAIN UpperToLower THEN UpperToLower[c] ELSE c

toLowerCase(s) == [i \in 1..Len(s) |-> LowerChar(s[i])]

\* s.includes(q): scan the start positions k, k+1, ... of s for q
RECURSIVE includesFrom(_, _, _)
includesFrom(s, q, k) ==
    IF k + Len(q) - 1 > Len(s) THEN FALSE
    ELSE IF SubSeq(s, k, k + Len(q) - 1) = q THEN TRUE
    ELSE includesFrom(s, q, k + 1)

includes(s, q) == includesFrom(s, q, 1)

\* The default comparison of Array.prototype.sort: by UTF-16 code units
RECURSIVE StringLess(_, _)
StringLess(a, b) ==
    IF b = <<>> THEN FALSE
    ELSE IF a = <<>> THEN TRUE
    ELSE IF CodeUnit[Head(a)] # CodeUnit[Head(b)]
         THEN CodeUnit[Head(a)] < CodeUnit[Head(b)]
    ELSE StringLess(Tail(a), Tail(b))

-----------------------------------------------------------------------------
(* Arrays *)

\* Array.from(new Set(arr)): the first occurrence of each value, in order
RECURSIVE Distinct(_)
Distinct(arr) ==
    IF arr = <<>> THEN <<>>
    ELSE LET init == Distinct(SubSeq(arr, 1, Len(arr) - 1))
             last == arr[Len(arr)]
         IN  IF \E i \in 1..Len(init) : init[i] = last THEN init
             ELSE Append(init, last)

-----------------------------------------------------------------------------
(* The memoised derivations of PublicationsList *)

\* (a, b) => a - b
YearAscending(a, b) == a - b < 0

YearDescending(a, b) == b - a < 0
YearOf(p) == p.year
TypeOf(p) == p.type

\* The comparison a sort is given: (a, b) => b - a, or none (the default one)
Precedes(compareFn, a, b) ==
    IF compareFn = "b - a" THEN YearDescending(a, b) ELSE StringLess(a, b)

\* arr.sort(compareFn) on distinct values: each element is inserted before the
\* first element it precedes
RECURSIVE Insert(_, _, _)
Insert(x, sorted, compareFn) ==
    IF sorted = <<>> THEN <<x>>
    ELSE IF Precedes(compareFn, x, Head(sorted)) THEN <<x>> \o sorted
    ELSE <<Head(sorted)>> \o Insert(x, Tail(sorted), compareFn)

RECURSIVE Sort(_, _)
Sort(arr, compareFn) ==
    IF arr = <<>> THEN <<>>
    ELSE Insert(Head(arr), Sort(Tail(arr), compareFn), compareFn)

computeYears(pubs) ==
    Sort(Distinct([i \in 1..Len(pubs) |-> YearOf(pubs[i])]), "b - a")

computeTypes(pubs) ==
    Sort(Distinct([i \in 1..Len(pubs) |-> TypeOf(pubs[i])]), "default")

All == <<"a", "l", "l">>    \* the string 'all'
AllYears == Undefined       \* selectedYear === 'all'

\* pub.journal?.toLowerCase().includes(q): undefined when the field is
OptionalIncludes(field, q) ==
    IF IsDefined(field) THEN JsBool(includes(toLowerCase(Get(field)), q))
    ELSE JsUndefined

titleIncludes(pub, q) == JsBool(includes(toLowerCase(Get(pub.title)), q))

\* a.name.includes(q), without toLowerCase()
authorIncludesCaseSensitive(pub, q) ==
    JsBool(\E i \in 1..Len(pub.authors) : includes(pub.authors[i].name, q))

authorIncludes(pub, q) ==
    JsBool(\E i \in 1..Len(pub.authors) :
               includes(toLowerCase(pub.authors[i].name), q))

matchesSearch(pub, query) ==
    LET q == toLowerCase(query)
    IN  JsOr(JsOr(JsOr(titleIncludes(pub, q),
                       authorIncludes(pub, q)),
                  OptionalIncludes(pub.journal, q)),
             OptionalIncludes(pub.conference, q))

matchesYear(pub, selYear) ==
    JsBool(selYear = AllYears \/ pub.year = Get(selYear))

\* pub.type === selectedType, without the 'all' pass-through
matchesTypeExactOnly(pub, selType) == JsBool(pub.type = selType)

matchesType(pub, selType) ==
    JsBool(selType = All \/ pub.type = selType)

\* pub.journal.toLowerCase() without the ?. would raise on an undefined journal too
ThrowsOnAbsentJournal(pub) == ~IsDefined(pub.title) \/ ~IsDefined(pub.journal)

\* pub.title.toLowerCase() on an undefined title raises a TypeError
Throws(pub) == ~IsDefined(pub.title)

callbackLocals(pub, query, selYear, selType) ==
    [matchesSearch |-> matchesSearch(pub, query),
     matchesYear   |-> matchesYear(pub, selYear),
     matchesType   |-> matchesType(pub, selType)]

\* return matchesSearch && matchesYear
callbackResultWithoutType(c) == JsAnd(c.matchesSearch, c.matchesYear)

\* return matchesSearch && matchesYear && matchesType
callbackResult(c) == JsAnd(JsAnd(c.matchesSearch, c.matchesYear), c.matchesType)

FilterThrows(pubs) == \E i \in 1..Len(pubs) : Throws(pubs[i])

computeCriteria(pubs, query, selYear, selType) ==
    [i \in 1..Len(pubs) |-> callbackLocals(pubs[i], query, selYear, selType)]

\* publications.filter(callback): the elements whose result is truthy, in order
computeFiltered(pubs, query, selYear, selType) ==
    LET Keep(p) == Truthy(callbackResult(callbackLocals(p, query, selYear, selType)))
    IN  SelectSeq(pubs, Keep)

-----------------------------------------------------------------------------
(* Inputs: publication records *)

Str_Nets      == <<"N", "e", "t", "s">>
Str_Prisms    == <<"P", "r", "i", "s", "m", "s">>
Str_JohnSmith == <<"J", "o", "h", "n", " ", "S", "m", "i", "t", "h">>
Str_Ann       == <<"A", "n", "n">>
Str_Mass      == <<"M", "a", "s", "s">>
Str_SMMC      == <<"S", "M", "M", "C">>
Str_smith     == <<"s", "m", "i", "t", "h">>
Str_SMITH     == <<"S", "M", "I", "T", "H">>
Str_article   == <<"a", "r", "t", "i", "c", "l", "e">>
Str_book      == <<"b", "o", "o", "k">>
Str_Misc      == <<"M", "i", "s", "c">>
Str_text      == <<"t", "e", "x", "t">>

Titles == {Str_Nets, Str_Prisms}
AuthorLists ==
    {<<>>, <<[name |-> Str_JohnSmith]>>,
     <<[name |-> Str_Ann], [name |-> Str_JohnSmith]>>}
Journals == {Undefined, Some(<<>>), Some(Str_Mass)}
Conferences == {Undefined, Some(Str_SMMC)}
Years == {2020, 2021}
Types == {Str_article, Str_book, Str_Misc}

\* What the list shows of a record besides the filtered fields
Extras ==
    {[description |-> Undefined, abstract |-> Undefined, bibtex |-> Undefined,
      hidden_bib |-> FALSE],
     [description |-> Some(Str_text), abstract |-> Some(Str_text),
      bibtex |-> Some(Str_text), hidden_bib |-> FALSE]}

\* The citation key of the i-th entry of a parsed batch
KeyOf(i) == <<"k", i>>

Record(title, authors, journal, conference, year, type, extra) ==
    [id |-> Undefined, title |-> title, authors |-> authors, journal |-> journal,
     conference |-> conference, year |-> year, type |-> type,
     description |-> extra.description, abstract |-> extra.abstract,
     bibtex |-> extra.bibtex, hidden_bib |-> extra.hidden_bib]

RecordsOver(titles, yrs, tys, extras) ==
    {Record(t, a, j, c, y, ty, e) :
        t \in titles, a \in AuthorLists, j \in Journals, c \in Conferences,
        y \in yrs, ty \in tys, e \in extras}

\* The records the longer input lists are made of
ListRecords(titles, yrs, tys) ==
    {Record(t, a.authors, Undefined, a.conference, y, ty, CHOOSE e \in Extras : TRUE) :
        t \in titles,
        a \in {[authors |-> <<[name |-> Str_JohnSmith]>>, conference |-> Undefined],
               [authors |-> <<>>, conference |-> Some(Str_SMMC)]},
        y \in yrs, ty \in tys}

\* ids are unique within a parsed batch: the i-th record gets the i-th key
WithIds(list) == [i \in 1..Len(list) |-> [list[i] EXCEPT !.id = KeyOf(i)]]

ListsUpTo(records, n) ==
    UNION {{WithIds(l) : l \in [1..k -> records]} : k \in 0..n}

-----------------------------------------------------------------------------
(* Inputs: what the user types and selects *)

QueryChars == {"s", "M"}
TypedQueries == UNION {[1..k -> QueryChars] : k \in 0..MaxQueryLen}
Queries == TypedQueries \cup {Str_smith, Str_SMITH}
ListQueries == {<<>>, <<"s", "M">>, Str_SMITH}

YearSelections == {AllYears} \cup {Some(y) : y \in Years}
TypeSelections == {All} \cup Types

-----------------------------------------------------------------------------
(* Inputs: what getPageConfig and parseBibTeX return *)

Null == <<>>
PageTypes == {"publication", "text", "card", "gallery"}
PageConfigs == {Null} \cup {Some([type |-> t]) : t \in PageTypes}

Shown ==
    [description |-> Some(Str_text), abstract |-> Some(Str_text),
     bibtex |-> Some(Str_text), hidden_bib |-> FALSE]
Hidden == [Shown EXCEPT !.hidden_bib = TRUE]
Bare ==
    [description |-> Undefined, abstract |-> Undefined, bibtex |-> Undefined,
     hidden_bib |-> FALSE]
Empty ==
    [description |-> Some(<<>>), abstract |-> Some(<<>>), bibtex |-> Some(<<>>),
     hidden_bib |-> FALSE]

Pub_Prisms(e) ==
    Record(Some(Str_Prisms), <<>>, Some(Str_Mass), Undefined, 2021, Str_article, e)
Pub_Smith(e) ==
    Record(Some(Str_Nets), <<[name |-> Str_Ann], [name |-> Str_JohnSmith]>>,
           Undefined, Undefined, 2020, Str_book, e)
Pub_Conf(e) ==
    Record(Some(Str_Nets), <<[name |-> Str_Ann]>>, Undefined, Some(Str_SMMC),
           2021, Str_book, e)

\* The parsed batches the page may be given
Library ==
    {WithIds(l) : l \in
        {<<>>,
         <<Pub_Smith(Shown)>>,
         <<Pub_Prisms(Shown), Pub_Smith(Shown), Pub_Conf(Bare)>>,
         <<Pub_Prisms(Hidden), Pub_Smith(Hidden), Pub_Conf(Shown)>>,
         <<Pub_Conf(Empty), Pub_Prisms(Shown)>>,
         <<Pub_Smith(Shown), Pub_Smith(Hidden), Pub_Prisms(Bare)>>}}

-----------------------------------------------------------------------------
(* Rendering PublicationsList *)

Mounted == renderState \in {"pending", "committed"}

useMemo(cached, fresh, depsChanged) == IF depsChanged THEN fresh ELSE cached

\* [publications]
OptionDepsChanged(propsReplaced) == propsReplaced

\* [publications, searchQuery, selectedYear]
FilterDepsWithoutType(propsReplaced) ==
    \/ propsReplaced
    \/ searchQuery' # searchQuery
    \/ selectedYear' # selectedYear

\* [publications, searchQuery, selectedYear, selectedType]
FilterDepsChanged(propsReplaced) ==
    \/ propsReplaced
    \/ searchQuery' # searchQuery
    \/ selectedYear' # selectedYear
    \/ selectedType' # selectedType

\* One render of the component from publications' and the cells' new values
RenderComponent(propsReplaced) ==
    IF FilterThrows(publications')
    THEN /\ renderState' = "crashed"
         /\ years' = <<>>
         /\ types' = <<>>
         /\ filteredPublications' = <<>>
         /\ criteria' = <<>>
    ELSE /\ renderState' = "committed"
         /\ years' = useMemo(years, computeYears(publications'),
                             OptionDepsChanged(propsReplaced))
         /\ types' = useMemo(types, computeTypes(publications'),
                             OptionDepsChanged(propsReplaced))
         /\ filteredPublications' =
                useMemo(filteredPublications,
                        computeFiltered(publications', searchQuery', selectedYear',
                                        selectedType'),
                        FilterDepsChanged(propsReplaced))
         /\ criteria' =
                useMemo(criteria,
                        computeCriteria(publications', searchQuery', selectedYear',
                                        selectedType'),
                        FilterDepsChanged(propsReplaced))

InList(pub) == \E i \in 1..Len(filteredPublications) : filteredPublications[i] = pub

\* {pub.abstract && (<button ...>Abstract</button>)}
AbstractButtonShown(pub) ==
    renderState = "committed" /\ InList(pub) /\ TruthyString(pub.abstract)

\* {pub.bibtex && !pub.hidden_bib && (<button ...>BibTeX</button>)}
BibtexButtonShown(pub) ==
    renderState = "committed" /\ InList(pub) /\ TruthyString(pub.bibtex)
        /\ ~pub.hidden_bib

\* {expandedAbstractId === pub.id && pub.abstract && (...)}
AbstractPanelShown(pub) ==
    renderState = "committed" /\ InList(pub) /\ expandedAbstractId = Some(pub.id)
        /\ TruthyString(pub.abstract)

\* {expandedBibtexId === pub.id && pub.bibtex && (...)}
BibtexPanelIgnoringHidden(pub) ==
    renderState = "committed" /\ InList(pub) /\ expandedBibtexId = Some(pub.id)
        /\ TruthyString(pub.bibtex)

\* {expandedBibtexId === pub.id && pub.bibtex && !pub.hidden_bib && (...)}
BibtexPanelShown(pub) ==
    renderState = "committed" /\ InList(pub) /\ expandedBibtexId = Some(pub.id)
        /\ TruthyString(pub.bibtex) /\ ~pub.hidden_bib

-----------------------------------------------------------------------------
(* Initial state *)

InitialCells ==
    /\ searchQuery = <<>>
    /\ selectedYear = AllYears
    /\ selectedType = All
    /\ showFilters = FALSE
    /\ expandedBibtexId = Null
    /\ expandedAbstractId = Null

NothingRendered ==
    /\ years = <<>>
    /\ types = <<>>
    /\ filteredPublications = <<>>
    /\ criteria = <<>>

Init ==
    /\ requested = FALSE
    /\ pageConfig = Null
    /\ notFoundSignalled = FALSE
    /\ rendered = {}
    /\ loaded = {}
    /\ publications = <<>>
    /\ InitialCells
    /\ NothingRendered
    /\ renderState = "unmounted"
    /\ pendingEffect = FALSE
    /\ lastClick = Null

-----------------------------------------------------------------------------
(* DynamicPage *)

\* The children with the publication page as the fallback of an unknown type
RenderersForFallback(config) ==
    {r \in {"PublicationPage", "TextPageWrapper", "CardPage"} :
        \/ r = "PublicationPage" /\ config.type \notin {"text", "card"}
        \/ r = "TextPageWrapper" /\ config.type = "text"
        \/ r = "CardPage" /\ config.type = "card"}

\* The three conditional children of DynamicPage's <div>
RenderersFor(config) ==
    {r \in {"PublicationPage", "TextPageWrapper", "CardPage"} :
        \/ r = "PublicationPage" /\ config.type = "publication"
        \/ r = "TextPageWrapper" /\ config.type = "text"
        \/ r = "CardPage" /\ config.type = "card"}

\* What PublicationPage and TextPageWrapper read before they render
LoadsFor(renderers) ==
    {l \in {"getBibtexContent", "parseBibTeX", "getMarkdownContent"} :
        \/ l \in {"getBibtexContent", "parseBibTeX"} /\ "PublicationPage" \in renderers
        \/ l = "getMarkdownContent" /\ "TextPageWrapper" \in renderers}

Unmount ==
    /\ publications' = <<>>
    /\ searchQuery' = <<>>
    /\ selectedYear' = AllYears
    /\ selectedType' = All
    /\ showFilters' = FALSE
    /\ expandedBibtexId' = Null
    /\ expandedAbstractId' = Null
    /\ years' = <<>>
    /\ types' = <<>>
    /\ filteredPublications' = <<>>
    /\ criteria' = <<>>
    /\ renderState' = "unmounted"

\* <PublicationsList publications={parsed} />: a mounted list keeps its cells
PassProps(parsed) ==
    /\ publications' = parsed
    /\ renderState' = "pending"
    /\ IF renderState = "committed"
       THEN UNCHANGED cellVars
       ELSE /\ searchQuery' = <<>>
            /\ selectedYear' = AllYears
            /\ selectedType' = All
            /\ showFilters' = FALSE
            /\ expandedBibtexId' = Null
            /\ expandedAbstractId' = Null
    /\ UNCHANGED <<years, types, filteredPublications, criteria>>

DynamicPage(config) ==
    /\ renderState # "pending"
    /\ ~pendingEffect
    /\ requested' = TRUE
    /\ pageConfig' = config
    /\ pendingEffect' = FALSE
    /\ lastClick' = Null
    /\ IF config = Null
       THEN /\ notFoundSignalled' = TRUE
            /\ rendered' = {}
            /\ loaded' = {}
            /\ Unmount
       ELSE /\ notFoundSignalled' = FALSE
            /\ rendered' = RenderersFor(Get(config))
            /\ loaded' = LoadsFor(rendered')
            /\ IF "PublicationPage" \in rendered'
               THEN \E parsed \in Library : PassProps(parsed)
               ELSE Unmount

-----------------------------------------------------------------------------
(* PublicationsList: render, effect and handlers *)

\* The render that new props cause; the [publications] effect is scheduled
Render ==
    /\ renderState = "pending"
    /\ UNCHANGED <<pageVars, publications, cellVars, lastClick>>
    /\ RenderComponent(TRUE)
    /\ pendingEffect' = (renderState' = "committed")

\* an effect that leaves the expansion as it is
KeepBibtexExpansion == expandedBibtexId' = expandedBibtexId

\* setExpandedBibtexId(null)
ResetBibtexExpansion == expandedBibtexId' = Null

\* useEffect(() => { setExpandedBibtexId(null); }, [publications])
RunEffect ==
    /\ pendingEffect
    /\ ResetBibtexExpansion
    /\ pendingEffect' = FALSE
    /\ UNCHANGED <<searchQuery, selectedYear, selectedType, showFilters,
                   expandedAbstractId>>
    /\ UNCHANGED <<pageVars, publications, lastClick>>
    /\ RenderComponent(FALSE)

Interactive == renderState = "committed" /\ ~pendingEffect

\* onChange={e => setSearchQuery(e.target.value)}
SetSearchQuery(value) ==
    /\ Interactive
    /\ searchQuery' = value
    /\ UNCHANGED <<selectedYear, selectedType, showFilters, expandedBibtexId,
                   expandedAbstractId>>
    /\ lastClick' = Null
    /\ UNCHANGED <<pageVars, publications, pendingEffect>>
    /\ RenderComponent(FALSE)

\* onClick={() => setShowFilters(!showFilters)}
ToggleFilters ==
    /\ Interactive
    /\ showFilters' = ~showFilters
    /\ UNCHANGED <<searchQuery, selectedYear, selectedType, expandedBibtexId,
                   expandedAbstractId>>
    /\ lastClick' = Null
    /\ UNCHANGED <<pageVars, publications, pendingEffect>>
    /\ RenderComponent(FALSE)

YearButtons == {AllYears} \cup {Some(years[i]) : i \in 1..Len(years)}
TypeButtons == {All} \cup {types[i] : i \in 1..Len(types)}

\* onClick={() => setSelectedYear('all')} and onClick={() => setSelectedYear(year)}
SetSelectedYear(choice) ==
    /\ Interactive
    /\ showFilters
    /\ choice \in YearButtons
    /\ selectedYear' = choice
    /\ UNCHANGED <<searchQuery, selectedType, showFilters, expandedBibtexId,
                   expandedAbstractId>>
    /\ lastClick' = Null
    /\ UNCHANGED <<pageVars, publications, pendingEffect>>
    /\ RenderComponent(FALSE)

\* onClick={() => setSelectedType('all')} and onClick={() => setSelectedType(type)}
SetSelectedType(choice) ==
    /\ Interactive
    /\ showFilters
    /\ choice \in TypeButtons
    /\ selectedType' = choice
    /\ UNCHANGED <<searchQuery, selectedYear, showFilters, expandedBibtexId,
                   expandedAbstractId>>
    /\ lastClick' = Null
    /\ UNCHANGED <<pageVars, publications, pendingEffect>>
    /\ RenderComponent(FALSE)

\* pub.id, whatever is expanded
toggleIdNeverCollapses(current, id) == Some(id)

\* expandedAbstractId === pub.id ? null : pub.id
toggleId(current, id) == IF current = Some(id) THEN Null ELSE Some(id)

\* onClick={() => setExpandedAbstractId(...)}
ClickAbstract(pub) ==
    /\ Interactive
    /\ AbstractButtonShown(pub)
    /\ expandedAbstractId' = toggleId(expandedAbstractId, pub.id)
    /\ UNCHANGED <<searchQuery, selectedYear, selectedType, showFilters,
                   expandedBibtexId>>
    /\ lastClick' = Some([button |-> "abstract", id |-> pub.id])
    /\ UNCHANGED <<pageVars, publications, pendingEffect>>
    /\ RenderComponent(FALSE)

\* onClick={() => setExpandedBibtexId(...)}
ClickBibtex(pub) ==
    /\ Interactive
    /\ BibtexButtonShown(pub)
    /\ expandedBibtexId' = toggleId(expandedBibtexId, pub.id)
    /\ UNCHANGED <<searchQuery, selectedYear, selectedType, showFilters,
                   expandedAbstractId>>
    /\ lastClick' = Some([button |-> "bibtex", id |-> pub.id])
    /\ UNCHANGED <<pageVars, publications, pendingEffect>>
    /\ RenderComponent(FALSE)

PubsOf(list) == {list[i] : i \in 1..Len(list)}

Next ==
    \/ \E config \in PageConfigs : DynamicPage(config)
    \/ Render
    \/ RunEffect
    \/ \E value \in TypedQueries : SetSearchQuery(value)
    \/ ToggleFilters
    \/ \E choice \in YearSelections : SetSelectedYear(choice)
    \/ \E choice \in TypeSelections : SetSelectedType(choice)
    \/ \E pub \in PubsOf(filteredPublications) : ClickAbstract(pub)
    \/ \E pub \in PubsOf(filteredPublications) : ClickBibtex(pub)

Spec == Init /\ [][Next]_vars

-----------------------------------------------------------------------------
(* The filter and the options as functions of their inputs: the component is  *)
(* handed a parsed list while its cells hold any query and selections, and    *)
(* renders.                                                                   *)

PropsPending(lists, queries) ==
    /\ requested = TRUE
    /\ pageConfig = Some([type |-> "publication"])
    /\ notFoundSignalled = FALSE
    /\ rendered = RenderersFor(Get(pageConfig))
    /\ loaded = LoadsFor(rendered)
    /\ publications \in lists
    /\ searchQuery \in queries
    /\ selectedYear \in YearSelections
    /\ selectedType \in TypeSelections
    /\ showFilters = TRUE
    /\ expandedBibtexId = Null
    /\ expandedAbstractId = Null
    /\ NothingRendered
    /\ renderState = "pending"
    /\ pendingEffect = FALSE
    /\ lastClick = Null

\* The records as the component reads them: title, year and type always set
TitledRecords ==
    RecordsOver({Some(t) : t \in Titles}, Years, Types,
                {CHOOSE e \in Extras : TRUE})
TitledListRecords ==
    ListRecords({Some(Str_Nets)}, Years, {Str_article, Str_book})

FilterInit ==
    \/ PropsPending(ListsUpTo(TitledRecords, 1), Queries)
    \/ PropsPending(ListsUpTo(TitledListRecords, MaxPubs), ListQueries)

FilterNext == Render \/ RunEffect

FilterSpec == FilterInit /\ [][FilterNext]_vars

\* The records of the data model in which title is one more optional string
OptionalTitles == {Undefined} \cup {Some(t) : t \in Titles}
OptionalRecords ==
    RecordsOver(OptionalTitles, {2020}, {Str_article, Str_book}, Extras)
OptionalListRecords ==
    ListRecords({Undefined, Some(Str_Nets)}, {2020}, {Str_article})

OptionalInit ==
    \/ PropsPending(ListsUpTo(OptionalRecords, 1), Queries)
    \/ PropsPending(ListsUpTo(OptionalListRecords, MaxPubs), ListQueries)

OptionalSpec == OptionalInit /\ [][FilterNext]_vars

-----------------------------------------------------------------------------
(* What the claims say, stated without the component's own operators *)

\* c and d are the same character or the two cases of one letter
SameLetter(c, d) ==
    \/ c = d
    \/ /\ c \in DOMAIN CodeUnit
       /\ d \in DOMAIN CodeUnit
       /\ CodeUnit[c] - CodeUnit[d] \in {32, -32}

\* q occurs in s as a contiguous run of characters, letter case disregarded
OccursIn(q, s) ==
    \E i \in 0..(Len(s) - Len(q)) :
        \A k \in 1..Len(q) : SameLetter(q[k], s[i + k])

OccursInOptional(q, field) == IsDefined(field) /\ OccursIn(q, Get(field))

TextCriterion(pub, q) ==
    \/ OccursInOptional(q, pub.title)
    \/ \E i \in 1..Len(pub.authors) : OccursIn(q, pub.authors[i].name)
    \/ OccursInOptional(q, pub.journal)
    \/ OccursInOptional(q, pub.conference)

YearCriterion(pub, sel) == sel = AllYears \/ Some(pub.year) = sel
TypeCriterion(pub, sel) == sel = All \/ pub.type = sel

Satisfies(pub) ==
    /\ TextCriterion(pub, searchQuery)
    /\ YearCriterion(pub, selectedYear)
    /\ TypeCriterion(pub, selectedType)

\* The positions of the records that satisfy all three criteria, ascending
RECURSIVE SatisfyingUpTo(_)
SatisfyingUpTo(n) ==
    IF n = 0 THEN <<>>
    ELSE IF Satisfies(publications[n])
         THEN Append(SatisfyingUpTo(n - 1), publications[n])
    ELSE SatisfyingUpTo(n - 1)

StrictlyDescending(numbers) ==
    \A i \in 1..(Len(numbers) - 1) : numbers[i] > numbers[i + 1]

\* a comes before b in the order of the strings' code units
CodeUnitsBefore(a, b) ==
    \E k \in 1..(Len(a) + 1) :
        /\ k <= Len(b)
        /\ \A j \in 1..(k - 1) : a[j] = b[j]
        /\ (k = Len(a) + 1 \/ CodeUnit[a[k]] < CodeUnit[b[k]])

StrictlyAscending(strings) ==
    \A i \in 1..(Len(strings) - 1) : CodeUnitsBefore(strings[i], strings[i + 1])

Committed == renderState = "committed"

-----------------------------------------------------------------------------
(* C1: the displayed list is exactly the records of publications that satisfy *)
(* the text criterion and the year criterion and the type criterion, in the  *)
(* order of publications and each once, and rendering leaves publications as *)
(* it was given.                                                             *)
C1_FilterIsConjunctionInOrder ==
    /\ [](Committed => filteredPublications = SatisfyingUpTo(Len(publications)))
    /\ [][publications' = publications]_vars

\* Three records across two years, one year selected, and a query that only a
\* record of the other year matches: nothing is displayed.
C1_Witness ==
    /\ Committed
    /\ Len(publications) = 3
    /\ {publications[i].year : i \in 1..3} = Years
    /\ selectedYear = Some(2020)
    /\ searchQuery = Str_SMITH
    /\ \E i \in 1..3 :
          publications[i].year = 2021 /\ TextCriterion(publications[i], searchQuery)
    /\ filteredPublications = <<>>

(* C2: a record passes the text search iff the query, letter case            *)
(* disregarded on both sides, occurs in its title, in the name of one of its *)
(* authors, in its journal or in its conference; the empty query passes      *)
(* every record.                                                             *)
C2_TextSearchIsCaseInsensitiveSubstring ==
    Committed =>
        \A i \in 1..Len(publications) :
            /\ Truthy(criteria[i].matchesSearch)
                   <=> TextCriterion(publications[i], searchQuery)
            /\ searchQuery = <<>> => Truthy(criteria[i].matchesSearch)

\* The query "smith" passes a record through its author "John Smith" alone.
C2_Witness ==
    /\ Committed
    /\ searchQuery = Str_smith
    /\ Len(publications) = 1
    /\ publications[1].authors = <<[name |-> Str_JohnSmith]>>
    /\ ~OccursInOptional(searchQuery, publications[1].title)
    /\ ~OccursInOptional(searchQuery, publications[1].journal)
    /\ ~OccursInOptional(searchQuery, publications[1].conference)
    /\ Truthy(criteria[1].matchesSearch)
    /\ filteredPublications = publications

(* C3: the year criterion passes every record when 'all' is selected and     *)
(* otherwise exactly the records of the selected year; the type criterion    *)
(* likewise with the selected type; neither reads the other's selection.     *)
C3_YearAndTypeAreExactOrPassThrough ==
    Committed =>
        \A i \in 1..Len(publications) :
            /\ Truthy(criteria[i].matchesYear)
                   <=> (selectedYear = AllYears
                            \/ publications[i].year = Get(selectedYear))
            /\ Truthy(criteria[i].matchesType)
                   <=> (selectedType = All \/ publications[i].type = selectedType)

\* A year and a type are selected; one record is of the year and not of the type.
C3_Witness ==
    /\ Committed
    /\ selectedYear # AllYears
    /\ selectedType # All
    /\ \E i \in 1..Len(publications) :
          /\ Truthy(criteria[i].matchesYear)
          /\ ~Truthy(criteria[i].matchesType)
    /\ \E i \in 1..Len(publications) :
          /\ ~Truthy(criteria[i].matchesYear)
          /\ Truthy(criteria[i].matchesType)

(* C4: the year options are the distinct years of publications, each once,   *)
(* strictly descending; the type options are its distinct types, each once,  *)
(* ascending (in the order of the strings' code units); computing them       *)
(* leaves publications as it was given.                                      *)
C4_OptionsAreDistinctAndSorted ==
    /\ [](Committed =>
            /\ {years[i] : i \in 1..Len(years)}
                   = {publications[i].year : i \in 1..Len(publications)}
            /\ StrictlyDescending(years)
            /\ {types[i] : i \in 1..Len(types)}
                   = {publications[i].type : i \in 1..Len(publications)}
            /\ StrictlyAscending(types))
    /\ [][publications' = publications]_vars

\* Three records, two years given in ascending order and two types given in
\* descending order, so that both options are reordered and deduplicated.
C4_Witness ==
    /\ Committed
    /\ Len(publications) = 3
    /\ publications[1].year < publications[3].year
    /\ CodeUnitsBefore(publications[3].type, publications[1].type)
    /\ Len(years) = 2
    /\ Len(types) = 2

(* C5: whenever the list is on screen, it is the filter applied to the       *)
(* current publications, search query, selected year and selected type:      *)
(* no event leaves a result computed from earlier values.                    *)
C5_DisplayedListIsCurrent ==
    Committed =>
        /\ filteredPublications =
               computeFiltered(publications, searchQuery, selectedYear, selectedType)
        /\ criteria =
               computeCriteria(publications, searchQuery, selectedYear, selectedType)

\* A query, a year and a type are all set, the list has been replaced, and the
\* result keeps some records and drops others.
C5_Witness ==
    /\ Committed
    /\ ~pendingEffect
    /\ searchQuery # <<>>
    /\ selectedYear # AllYears
    /\ selectedType # All
    /\ showFilters
    /\ filteredPublications # <<>>
    /\ Len(filteredPublications) < Len(publications)

(* C6: for a record with hidden_bib set, and for a record with no bibtex     *)
(* text, neither the BibTeX button nor the BibTeX panel is ever rendered,    *)
(* whatever expandedBibtexId holds.                                          *)
C6_HiddenBibtexNeverRendered ==
    \A pub \in PubsOf(publications) :
        (pub.hidden_bib \/ ~IsDefined(pub.bibtex) \/ pub.bibtex = Some(<<>>)) =>
            /\ ~BibtexButtonShown(pub)
            /\ ~BibtexPanelShown(pub)

\* A listed record with hidden_bib set and bibtex text is the one whose id
\* expandedBibtexId holds.
C6_Witness ==
    /\ Committed
    /\ \E pub \in PubsOf(filteredPublications) :
          /\ pub.hidden_bib
          /\ TruthyString(pub.bibtex)
          /\ expandedBibtexId = Some(pub.id)

(* C7 (as amended): filtering is total over the records whose title is       *)
(* present: an absent journal, conference, description, abstract or bibtex   *)
(* raises no error and contributes no match, and the record is kept or       *)
(* dropped by its remaining fields and the year and type criteria; a list    *)
(* with a record whose title is absent makes the filter raise a TypeError.   *)
C7_TotalWhenTitlePresent ==
    renderState # "pending" =>
        /\ renderState = "crashed"
               <=> \E i \in 1..Len(publications) : ~IsDefined(publications[i].title)
        /\ Committed => filteredPublications = SatisfyingUpTo(Len(publications))

\* A record with a title and none of the other optional strings is kept under a
\* non-empty query, which only its author matches.
C7_Witness ==
    /\ Committed
    /\ searchQuery = Str_smith
    /\ Len(publications) = 1
    /\ IsDefined(publications[1].title)
    /\ ~IsDefined(publications[1].journal)
    /\ ~IsDefined(publications[1].conference)
    /\ ~IsDefined(publications[1].description)
    /\ ~IsDefined(publications[1].abstract)
    /\ ~IsDefined(publications[1].bibtex)
    /\ filteredPublications = publications

(* C7 (as written): filtering raises no error for a record in which any of   *)
(* title, journal, conference, description, abstract or bibtex is absent,    *)
(* and keeps or drops the record by its remaining fields.                    *)
C7_TotalOverAllOptionalFields ==
    renderState # "pending" =>
        /\ renderState # "crashed"
        /\ filteredPublications = SatisfyingUpTo(Len(publications))

(* C8: when getPageConfig returns null, DynamicPage signals not-found,       *)
(* invokes no renderer and loads or parses no content; when it returns a     *)
(* configuration, at most one renderer is invoked: the publication renderer  *)
(* iff type is 'publication', the text renderer iff 'text', the card         *)
(* renderer iff 'card', and none for any other type.                         *)
C8_DispatchByTypeOrNotFound ==
    requested =>
        IF pageConfig = Null
        THEN /\ notFoundSignalled
             /\ rendered = {}
             /\ loaded = {}
             /\ renderState = "unmounted"
        ELSE /\ ~notFoundSignalled
             /\ Cardinality(rendered) <= 1
             /\ "PublicationPage" \in rendered <=> Get(pageConfig).type = "publication"
             /\ "TextPageWrapper" \in rendered <=> Get(pageConfig).type = "text"
             /\ "CardPage" \in rendered <=> Get(pageConfig).type = "card"
             /\ Get(pageConfig).type \notin {"publication", "text", "card"}
                    => rendered = {} /\ loaded = {}
             /\ "parseBibTeX" \in loaded => "PublicationPage" \in rendered
             /\ "getMarkdownContent" \in loaded => "TextPageWrapper" \in rendered
             /\ "PublicationPage" \in rendered <=> renderState # "unmounted"

\* A slug with no configuration has been requested.
C8_Witness ==
    /\ requested
    /\ pageConfig = Null
    /\ notFoundSignalled

(* C9: when the publications prop is replaced, the render of the new list    *)
(* schedules the effect, nothing happens before the effect has run, and the  *)
(* effect sets expandedBibtexId to null and leaves searchQuery,              *)
(* selectedYear, selectedType, showFilters and expandedAbstractId as they    *)
(* were; from null, only a click on a BibTeX button expands a record again.  *)
C9_PropsChangeResetsBibtexOnly ==
    [][/\ renderState = "pending" =>
              /\ renderState' \in {"committed", "crashed"}
              /\ renderState' = "committed" => pendingEffect'
              /\ UNCHANGED cellVars
       /\ pendingEffect =>
              /\ expandedBibtexId' = Null
              /\ ~pendingEffect'
              /\ UNCHANGED <<publications, searchQuery, selectedYear, selectedType,
                             showFilters, expandedAbstractId>>
       /\ (expandedBibtexId = Null /\ expandedBibtexId' # Null) =>
              /\ lastClick' # Null
              /\ Get(lastClick').button = "bibtex"
              /\ expandedBibtexId' = Some(Get(lastClick').id)
      ]_vars

\* The list has been replaced while a BibTeX panel and an abstract panel were
\* open, a query typed and a year selected; the effect is about to run.
C9_Witness ==
    /\ pendingEffect
    /\ expandedBibtexId # Null
    /\ expandedAbstractId # Null
    /\ searchQuery # <<>>
    /\ selectedYear # AllYears

AbstractPanels == {pub \in PubsOf(publications) : AbstractPanelShown(pub)}
BibtexPanels == {pub \in PubsOf(publications) : BibtexPanelShown(pub)}

ClickedPub(click, list) == {pub \in PubsOf(list) : pub.id = click.id}

(* C10: at most one abstract panel and at most one BibTeX panel is shown;    *)
(* a click on a record's Abstract (BibTeX) button collapses that panel when  *)
(* the record is the expanded one and otherwise makes it the only expanded   *)
(* one of that kind, and leaves the other kind's expansion, the query and    *)
(* the selections as they were; a change of the query or of a selection      *)
(* leaves both expansions as they were.                                      *)
C10_SingleSlotToggles ==
    /\ [](/\ Cardinality(AbstractPanels) <= 1
          /\ Cardinality(BibtexPanels) <= 1)
    /\ [][/\ (lastClick' # Null /\ Get(lastClick').button = "abstract") =>
                 /\ expandedAbstractId' =
                        IF expandedAbstractId = Some(Get(lastClick').id) THEN Null
                        ELSE Some(Get(lastClick').id)
                 /\ expandedAbstractId' # Null =>
                        AbstractPanels' =
                            ClickedPub(Get(lastClick'), filteredPublications)
                 /\ expandedAbstractId' = Null =>
                        AbstractPanels' = {}
                 /\ UNCHANGED <<expandedBibtexId, searchQuery, selectedYear,
                                selectedType>>
          /\ (lastClick' # Null /\ Get(lastClick').button = "bibtex") =>
                 /\ expandedBibtexId' =
                        IF expandedBibtexId = Some(Get(lastClick').id) THEN Null
                        ELSE Some(Get(lastClick').id)
                 /\ expandedBibtexId' # Null =>
                        BibtexPanels' =
                            ClickedPub(Get(lastClick'), filteredPublications)
                 /\ expandedBibtexId' = Null =>
                        BibtexPanels' = {}
                 /\ UNCHANGED <<expandedAbstractId, searchQuery, selectedYear,
                                selectedType>>
          /\ (/\ renderState = "committed"
              /\ renderState' = "committed"
              /\ <<searchQuery, selectedYear, selectedType>>'
                     # <<searchQuery, selectedYear, selectedType>>) =>
                 UNCHANGED <<expandedAbstractId, expandedBibtexId>>
         ]_vars

\* One record's abstract and another record's BibTeX are expanded after a click
\* that collapsed nothing.
C10_Witness ==
    /\ Committed
    /\ lastClick # Null
    /\ expandedAbstractId # Null
    /\ expandedBibtexId # Null
    /\ expandedAbstractId # expandedBibtexId
    /\ Cardinality(AbstractPanels) = 1
    /\ Cardinality(BibtexPanels) = 1

====
